---- MODULE Spec2Model ----
(***************************************************************************)
(* Model of src/src/App.jsx (DeepFocus): the Focus/Break countdown, the    *)
(* persisted snapshot (localStorage), and the ambient-sound graph built on *)
(* a Web Audio context.                                                    *)
(*                                                                         *)
(* Numbers.  A JavaScript number x is held as the integer x * Scale        *)
(* (fixed point), so that non-integer values such as 25.5 exist in the     *)
(* model.  Num(n) is the representation of the integer literal n.          *)
(*                                                                         *)
(* One action is one React event: the handler, the re-render and every     *)
(* effect that the re-render runs (ref sync, persistence, interval,        *)
(* ambient).                                                               *)
(***************************************************************************)
EXTENDS Integers, Sequences, FiniteSets, TLC

\* ------------------------------------------------------------------ bounds
Scale == 2          \* fixed-point resolution: units per 1
MaxSessions == 1    \* completedSessions is counted up to this by ticks
MaxGraphs == 4      \* audio graphs built in one run
MaxPending == 2     \* startAmbient calls awaiting ctx.resume() at once

\* ------------------------------------------------------- program constants
MinFocus == 5
MaxFocus == 120
MinBreak == 1
MaxBreak == 45
MaxVolume == 100
SessionCap == 100000
SecondsPerMinute == 60
DefaultFocus == 25
DefaultBreak == 5
DefaultVolume == 40

Num(n) == n * Scale
IsInteger(x) == x % Scale = 0
Min2(a, b) == IF a < b THEN a ELSE b
Max2(a, b) == IF a > b THEN a ELSE b

PRESETS == << [focus |-> Num(25), rest |-> Num(5)],
              [focus |-> Num(50), rest |-> Num(10)],
              [focus |-> Num(15), rest |-> Num(3)] >>

AMBIENT_OPTIONS == <<"off", "white", "rain", "forest">>
AmbientValues == { AMBIENT_OPTIONS[i] : i \in 1..Len(AMBIENT_OPTIONS) }

\* ------------------------------------------------ JavaScript / JSON values
\* A value is a record tagged with its typeof; absent properties read as
\* undefined.
JNum(n) == [t |-> "number", n |-> n]
JStr(s) == [t |-> "string", s |-> s]
JBool(b) == [t |-> "boolean", b |-> b]
JArr(a) == [t |-> "array", a |-> a]
JObj(f) == [t |-> "object", f |-> f]
JUndef == [t |-> "undefined"]
JNull == [t |-> "null"]
JNaN == [t |-> "NaN"]     \* typeof NaN is 'number', Number.isNaN is true

\* Boolean(v)
Truthy(v) ==
  CASE v.t = "number" -> v.n # 0
    [] v.t = "string" -> v.s # ""
    [] v.t = "boolean" -> v.b
    [] v.t \in {"array", "object"} -> TRUE
    [] OTHER -> FALSE

\* obj[key] on a non-null value: only objects of the model carry the keys.
Prop(v, key) ==
  IF v.t = "object" /\ key \in DOMAIN v.f THEN v.f[key] ELSE JUndef

\* Mutant of clampNumber: an out-of-range number is replaced by the fallback
\* instead of being clamped.
clampNumberRejects(value, min, max, fallback) ==
  IF value.t # "number" THEN fallback
  ELSE IF value.n < min \/ value.n > max THEN fallback ELSE value.n

\* clampNumber (lines 28-34): the fallback for a non-number or NaN, else
\* Math.min(Math.max(value, min), max).
clampNumber(value, min, max, fallback) ==
  IF value.t # "number" THEN fallback ELSE Min2(Max2(value.n, min), max)

\* The value of localStorage[STORAGE_KEY]: absent, or a text that is empty,
\* unparsable, or the JSON text of value j.
Absent == [t |-> "absent"]
EmptyText == [t |-> "empty"]
Garbage == [t |-> "garbage"]
Text(j) == [t |-> "text", j |-> j]

defaults ==
  [ focusMinutes |-> Num(DefaultFocus),
    breakMinutes |-> Num(DefaultBreak),
    mode |-> "focus",
    secondsLeft |-> Num(DefaultFocus) * SecondsPerMinute,
    completedSessions |-> 0,
    tasks |-> << >>,
    ambient |-> "off",
    volume |-> Num(DefaultVolume) ]

\* parsed.tasks filtered and mapped (lines 60-67)
KeepTask(task) ==
  /\ Truthy(task)
  /\ Prop(task, "id").t = "string"
  /\ Prop(task, "title").t = "string"

RECURSIVE FilterTasks(_)
FilterTasks(a) ==
  IF a = << >> THEN << >>
  ELSE LET rest == FilterTasks(Tail(a))
       IN IF KeepTask(Head(a))
          THEN << [ id |-> Prop(Head(a), "id").s,
                    title |-> Prop(Head(a), "title").s,
                    done |-> Truthy(Prop(Head(a), "done")) ] >> \o rest
          ELSE rest

safeTasks(parsed) ==
  IF Prop(parsed, "tasks").t = "array"
  THEN FilterTasks(Prop(parsed, "tasks").a)
  ELSE defaults.tasks

\* Mutant of Sanitize: secondsLeft is clamped against the Focus duration
\* whatever the mode.
SanitizeClampsByFocus(parsed) ==
  LET safeMode == IF Prop(parsed, "mode") = JStr("break") THEN "break" ELSE "focus"
      safeFocus == clampNumber(Prop(parsed, "focusMinutes"),
                               Num(MinFocus), Num(MaxFocus), defaults.focusMinutes)
      safeBreak == clampNumber(Prop(parsed, "breakMinutes"),
                               Num(MinBreak), Num(MaxBreak), defaults.breakMinutes)
      maxSeconds == safeFocus * SecondsPerMinute
      amb == Prop(parsed, "ambient")
  IN [ focusMinutes |-> safeFocus,
       breakMinutes |-> safeBreak,
       mode |-> safeMode,
       secondsLeft |-> clampNumber(Prop(parsed, "secondsLeft"), 0, maxSeconds, maxSeconds),
       completedSessions |-> clampNumber(Prop(parsed, "completedSessions"),
                                         0, Num(SessionCap), 0),
       tasks |-> safeTasks(parsed),
       ambient |-> IF amb.t = "string" /\ amb.s \in AmbientValues
                   THEN amb.s ELSE defaults.ambient,
       volume |-> clampNumber(Prop(parsed, "volume"), 0, Num(MaxVolume), defaults.volume) ]

\* The body of the try block after JSON.parse (lines 54-78).
Sanitize(parsed) ==
  LET safeMode == IF Prop(parsed, "mode") = JStr("break") THEN "break" ELSE "focus"
      safeFocus == clampNumber(Prop(parsed, "focusMinutes"),
                               Num(MinFocus), Num(MaxFocus), defaults.focusMinutes)
      safeBreak == clampNumber(Prop(parsed, "breakMinutes"),
                               Num(MinBreak), Num(MaxBreak), defaults.breakMinutes)
      maxSeconds == (IF safeMode = "focus" THEN safeFocus ELSE safeBreak)
                      * SecondsPerMinute
      amb == Prop(parsed, "ambient")
  IN [ focusMinutes |-> safeFocus,
       breakMinutes |-> safeBreak,
       mode |-> safeMode,
       secondsLeft |-> clampNumber(Prop(parsed, "secondsLeft"), 0, maxSeconds, maxSeconds),
       completedSessions |-> clampNumber(Prop(parsed, "completedSessions"),
                                         0, Num(SessionCap), 0),
       tasks |-> safeTasks(parsed),
       ambient |-> IF amb.t = "string" /\ amb.s \in AmbientValues
                   THEN amb.s ELSE defaults.ambient,
       volume |-> clampNumber(Prop(parsed, "volume"), 0, Num(MaxVolume), defaults.volume) ]

\* getInitialState(): a falsy item gives the defaults; JSON.parse throwing, or
\* a property read on null throwing, is caught and gives the defaults.
getInitialState(rawState) ==
  IF rawState.t \in {"absent", "empty"} THEN defaults
  ELSE IF rawState.t = "garbage" THEN defaults
  ELSE IF rawState.j.t = "null" THEN defaults
  ELSE Sanitize(rawState.j)

\* JSON.stringify(stateToStore) (lines 233-244), as the value JSON.parse
\* gives back for it.
TaskJson(task) ==
  JObj([id |-> JStr(task.id), title |-> JStr(task.title), done |-> JBool(task.done)])

Serialize(s) ==
  Text(JObj([ focusMinutes |-> JNum(s.focusMinutes),
              breakMinutes |-> JNum(s.breakMinutes),
              mode |-> JStr(s.mode),
              secondsLeft |-> JNum(s.secondsLeft),
              completedSessions |-> JNum(s.completedSessions),
              tasks |-> JArr([i \in 1..Len(s.tasks) |-> TaskJson(s.tasks[i])]),
              ambient |-> JStr(s.ambient),
              volume |-> JNum(s.volume) ]))

\* ------------------------------------------------------------------- state
VARIABLES
  phase,              \* "boot" (before React mounts App), "mounted", "unmounted"
  stored,             \* localStorage[STORAGE_KEY]
  rawState,           \* what getItem returned when App mounted
  focusMinutes, breakMinutes, mode, secondsLeft, isRunning,
  completedSessions, tasks, ambient, volume,     \* useState cells
  modeRef, focusRef, breakRef,                   \* useRef cells
  intervals,          \* setInterval callbacks installed and not cleared
  audio,              \* audioRef.current and the Web Audio context behind it
  rejected,           \* localStorage.setItem has thrown out of the effect
  storeFull,          \* the store rejects writes (quota exhausted, storage disabled)
  obs                 \* observer: ticks since a start at the full Focus duration

vars == << phase, stored, rawState, focusMinutes, breakMinutes, mode, secondsLeft,
           isRunning, completedSessions, tasks, ambient, volume, modeRef, focusRef,
           breakRef, intervals, audio, rejected, storeFull, obs >>

\* The eight values the persistence effect stores (its dependency list).
Cur ==
  [ focusMinutes |-> focusMinutes, breakMinutes |-> breakMinutes, mode |-> mode,
    secondsLeft |-> secondsLeft, completedSessions |-> completedSessions,
    tasks |-> tasks, ambient |-> ambient, volume |-> volume ]

cycleDuration ==
  IF mode = "focus" THEN focusMinutes * SecondsPerMinute
  ELSE breakMinutes * SecondsPerMinute

\* ------------------------------------------------------------------- audio
\* audio.ctx, audio.source, audio.nodes are audioRef.current: source and nodes
\* hold the id of the graph whose nodes they reference (0: null / []).
\* audio.state is ctx.state of the one AudioContext ("none" before it exists),
\* audio.connected the graphs whose nodes are connected through to
\* ctx.destination with their source started, audio.pending the startAmbient
\* calls suspended at `await ctx.resume()` (each with the ambient and volume
\* its closure captured), audio.built the number of graphs built so far.
NoAudio ==
  [ ctx |-> "null", source |-> 0, nodes |-> 0, state |-> "none",
    connected |-> {}, pending |-> << >>, built |-> 0 ]

Chain(profile) ==
  CASE profile = "white" -> <<"source", "gain">>
    [] profile = "rain" -> <<"source", "highpass800", "lowpass7000", "gain">>
    [] profile = "forest" -> <<"source", "lowpass1200", "peaking300", "gain">>
    [] OTHER -> << >>

\* Mutant of stopAmbient: the source is stopped and the references cleared,
\* but the nodes are not disconnected.
stopAmbientKeepsNodes(a) ==
  IF a.source = 0 THEN a
  ELSE [a EXCEPT !.source = 0, !.nodes = 0]

\* stopAmbient (lines 121-140)
stopAmbient(a) ==
  IF a.source = 0 THEN a
  ELSE [a EXCEPT !.connected = { g \in @ : g.id # a.nodes },
                 !.source = 0,
                 !.nodes = 0]

\* startAmbient from line 159 on: stop, fresh noise buffer, nodes, connect, start.
BuildGraph(a, amb, vol) ==
  LET a1 == stopAmbient(a)
      id == a1.built + 1
      g == [id |-> id, profile |-> amb, chain |-> Chain(amb), gain |-> vol]
  IN [a1 EXCEPT !.built = id,
                !.connected = IF Chain(amb) = << >> THEN @ ELSE @ \cup {g},
                !.nodes = IF Chain(amb) = << >> THEN @ ELSE id,
                !.source = id]

\* startAmbient (lines 142-218), called with the ambient and volume of the
\* render that created it; suspended: whether a context it creates starts
\* in state 'suspended'.
startAmbient(a, amb, vol, suspended) ==
  IF amb = "off" THEN stopAmbient(a)
  ELSE LET a1 == IF a.ctx = "null"
                 THEN [a EXCEPT !.ctx = "ctx",
                                !.state = IF suspended THEN "suspended" ELSE "running"]
                 ELSE a
       IN IF a1.state = "suspended"
          THEN [a1 EXCEPT !.pending = Append(@, [ambient |-> amb, volume |-> vol])]
          ELSE BuildGraph(a1, amb, vol)

\* The ambient effect (lines 284-292) re-running: the cleanup the previous run
\* returned (none when ambient was 'off'), then the new run.
ambientEffect(a, prevAmbient, amb, vol, suspended) ==
  LET a1 == IF prevAmbient = "off" THEN a ELSE stopAmbient(a)
  IN IF amb = "off" THEN stopAmbient(a1) ELSE startAmbient(a1, amb, vol, suspended)

\* Unmounting App: the ambient effect's cleanup, then the unmount cleanup
\* (lines 294-320).
unmountCleanup(a, amb) ==
  LET a1 == IF amb = "off" THEN a ELSE stopAmbient(a)
      a2 == IF a1.source # 0
            THEN [a1 EXCEPT !.connected = { g \in @ : g.id # a1.nodes },
                            !.source = 0, !.nodes = 0]
            ELSE a1
  IN IF a2.ctx # "null" THEN [a2 EXCEPT !.ctx = "null", !.state = "closed"] ELSE a2

Bounded(a) == a.built <= MaxGraphs /\ Len(a.pending) <= MaxPending

\* ----------------------------------------------------------------- effects
\* Mutant of intervalEffect: the effect returns no cleanup, so the interval
\* of the previous run is never cleared.
intervalEffectNoCleanup(n, wasRunning, run) == n + (IF run THEN 1 ELSE 0)

\* The interval effect (lines 256-282) re-running because isRunning changed:
\* the previous run's cleanup clears its interval, the new run installs one
\* when running.
intervalEffect(n, wasRunning, run) ==
  (n - (IF wasRunning THEN 1 ELSE 0)) + (IF run THEN 1 ELSE 0)

\* Mutant of persistenceEffect: the effect serializes the values of the
\* previous render (a stale closure).
persistenceEffectStale(base, s, accepted) ==
  IF accepted THEN [stored |-> Serialize(Cur), thrown |-> FALSE]
  ELSE [stored |-> base, thrown |-> TRUE]

\* The persistence effect (lines 232-254): setItem with the serialized
\* snapshot; accepted says whether the store takes the write.  There is no
\* try/catch around setItem: a rejected write throws out of the effect.
persistenceEffect(base, s, accepted) ==
  IF accepted THEN [stored |-> Serialize(s), thrown |-> FALSE]
  ELSE [stored |-> base, thrown |-> TRUE]

ObsOff == [on |-> FALSE, n |-> 0, flips |-> 0, cs0 |-> 0]

\* Mutant of ambientDepsChanged: the ambient effect has no dependency list
\* and runs on every commit.
ambientDepsAlways(s) == TRUE

\* The ambient effect's dependencies (line 292): ambient, startAmbient and
\* stopAmbient; startAmbient's identity changes with ambient and volume
\* (line 218).  s holds the values of the commit.
ambientDepsChanged(s) == s.ambient # ambient \/ s.volume # volume

\* One React commit: the state cells take the values of snapshot s and run,
\* and the effects whose dependencies changed run in declaration order.
\* base is localStorage's value when the effects start, force says that a
\* dependency changed by identity alone (a new tasks array).  An error
\* thrown by an effect is not caught by any error boundary: React unmounts
\* the tree, which runs every cleanup.
Render(base, s, run, force, suspended) ==
  LET dirty == force \/ s # Cur
      w == IF dirty THEN persistenceEffect(base, s, ~storeFull)
           ELSE [stored |-> base, thrown |-> FALSE]
      iv == IF run # isRunning THEN intervalEffect(intervals, isRunning, run)
            ELSE intervals
      a1 == IF ambientDepsChanged(s)
            THEN ambientEffect(audio, ambient, s.ambient, s.volume, suspended)
            ELSE audio
  IN /\ focusMinutes' = s.focusMinutes
     /\ breakMinutes' = s.breakMinutes
     /\ mode' = s.mode
     /\ secondsLeft' = s.secondsLeft
     /\ completedSessions' = s.completedSessions
     /\ tasks' = s.tasks
     /\ ambient' = s.ambient
     /\ volume' = s.volume
     /\ isRunning' = run
     /\ modeRef' = s.mode
     /\ focusRef' = s.focusMinutes
     /\ breakRef' = s.breakMinutes
     /\ stored' = w.stored
     /\ rejected' = (rejected \/ w.thrown)
     /\ phase' = IF w.thrown THEN "unmounted" ELSE phase
     /\ intervals' = IF w.thrown THEN iv - (IF run THEN 1 ELSE 0) ELSE iv
     /\ audio' = IF w.thrown THEN unmountCleanup(a1, s.ambient) ELSE a1
     /\ Bounded(audio')
     /\ rawState' = rawState
     /\ storeFull' = storeFull

\* ----------------------------------------------------------------- actions
\* Mutant of Mount: a countdown found under way in the stored snapshot is
\* resumed at once.
MountResumes(suspended) ==
  /\ phase = "boot"
  /\ LET init == getInitialState(stored)
         w == persistenceEffect(stored, init, ~storeFull)
         a1 == IF init.ambient = "off" THEN stopAmbient(audio)
               ELSE startAmbient(audio, init.ambient, init.volume, suspended)
         run == init.secondsLeft
                  < (IF init.mode = "focus" THEN init.focusMinutes
                     ELSE init.breakMinutes) * SecondsPerMinute
     IN /\ rawState' = stored
        /\ focusMinutes' = init.focusMinutes
        /\ breakMinutes' = init.breakMinutes
        /\ mode' = init.mode
        /\ secondsLeft' = init.secondsLeft
        /\ completedSessions' = init.completedSessions
        /\ tasks' = init.tasks
        /\ ambient' = init.ambient
        /\ volume' = init.volume
        /\ isRunning' = run
        /\ modeRef' = init.mode
        /\ focusRef' = init.focusMinutes
        /\ breakRef' = init.breakMinutes
        /\ stored' = w.stored
        /\ rejected' = w.thrown
        /\ phase' = IF w.thrown THEN "unmounted" ELSE "mounted"
        /\ intervals' = IF run /\ ~w.thrown THEN 1 ELSE 0
        /\ audio' = IF w.thrown THEN unmountCleanup(a1, init.ambient) ELSE a1
        /\ Bounded(audio')
        /\ obs' = ObsOff
        /\ storeFull' = storeFull

\* React mounts App: useMemo(getInitialState), the useState initialisers
\* (lines 93-110), then every effect runs once.
Mount(suspended) ==
  /\ phase = "boot"
  /\ LET init == getInitialState(stored)
         w == persistenceEffect(stored, init, ~storeFull)
         a1 == IF init.ambient = "off" THEN stopAmbient(audio)
               ELSE startAmbient(audio, init.ambient, init.volume, suspended)
     IN /\ rawState' = stored
        /\ focusMinutes' = init.focusMinutes
        /\ breakMinutes' = init.breakMinutes
        /\ mode' = init.mode
        /\ secondsLeft' = init.secondsLeft
        /\ completedSessions' = init.completedSessions
        /\ tasks' = init.tasks
        /\ ambient' = init.ambient
        /\ volume' = init.volume
        /\ isRunning' = FALSE
        /\ modeRef' = init.mode
        /\ focusRef' = init.focusMinutes
        /\ breakRef' = init.breakMinutes
        /\ stored' = w.stored
        /\ rejected' = w.thrown
        /\ phase' = IF w.thrown THEN "unmounted" ELSE "mounted"
        /\ intervals' = 0
        /\ audio' = IF w.thrown THEN unmountCleanup(a1, init.ambient) ELSE a1
        /\ Bounded(audio')
        /\ obs' = ObsOff
        /\ storeFull' = storeFull

\* Mutant of Start: starting also rewinds the countdown to the full duration.
StartRewinds ==
  /\ phase = "mounted"
  /\ ~isRunning
  /\ Render(stored, [Cur EXCEPT !.secondsLeft = cycleDuration], TRUE, FALSE, FALSE)
  /\ obs' = ObsOff

\* The start/pause button (line 504): setIsRunning((prev) => !prev).
Start ==
  /\ phase = "mounted"
  /\ ~isRunning
  /\ Render(stored, Cur, TRUE, FALSE, FALSE)
  /\ obs' = IF mode = "focus" /\ secondsLeft = focusMinutes * SecondsPerMinute
            THEN [on |-> TRUE, n |-> 0, flips |-> 0, cs0 |-> completedSessions]
            ELSE ObsOff

Pause ==
  /\ phase = "mounted"
  /\ isRunning
  /\ Render(stored, Cur, FALSE, FALSE, FALSE)
  /\ obs' = ObsOff

\* Mutant of tickUpdater: every expiry counts a session, the Break one too.
tickUpdaterCountsBreak ==
  LET prev == secondsLeft
      nextMode == IF modeRef = "focus" THEN "break" ELSE "focus"
      nextDuration == (IF nextMode = "focus" THEN focusRef ELSE breakRef)
                        * SecondsPerMinute
  IN IF prev > Num(1)
     THEN [Cur EXCEPT !.secondsLeft = prev - Num(1)]
     ELSE [Cur EXCEPT !.secondsLeft = nextDuration,
                      !.mode = nextMode,
                      !.completedSessions = @ + Num(1)]

\* Mutant of tickUpdater: the countdown runs to 0 before the mode flips.
tickUpdaterToZero ==
  LET prev == secondsLeft
      nextMode == IF modeRef = "focus" THEN "break" ELSE "focus"
      nextDuration == (IF nextMode = "focus" THEN focusRef ELSE breakRef)
                        * SecondsPerMinute
  IN IF prev > 0
     THEN [Cur EXCEPT !.secondsLeft = prev - Num(1)]
     ELSE [Cur EXCEPT !.secondsLeft = nextDuration,
                      !.mode = nextMode,
                      !.completedSessions =
                         IF modeRef = "focus" THEN @ + Num(1) ELSE @]

\* Mutant of tickUpdater: the callback reads the mode its closure captured
\* when the timer was started in Focus, not modeRef.
tickUpdaterStaleMode ==
  LET prev == secondsLeft
      nextDuration == breakRef * SecondsPerMinute
  IN IF prev > Num(1)
     THEN [Cur EXCEPT !.secondsLeft = prev - Num(1)]
     ELSE [Cur EXCEPT !.secondsLeft = nextDuration,
                      !.mode = "break",
                      !.completedSessions = @ + Num(1)]

\* The updater the interval callback passes to setSecondsLeft (lines 262-278),
\* with the setCompletedSessions and setMode calls it makes: the snapshot
\* after the tick.
tickUpdater ==
  LET prev == secondsLeft
      nextMode == IF modeRef = "focus" THEN "break" ELSE "focus"
      nextDuration == (IF nextMode = "focus" THEN focusRef ELSE breakRef)
                        * SecondsPerMinute
  IN IF prev > Num(1)
     THEN [Cur EXCEPT !.secondsLeft = prev - Num(1)]
     ELSE [Cur EXCEPT !.secondsLeft = nextDuration,
                      !.mode = nextMode,
                      !.completedSessions =
                         IF modeRef = "focus" THEN @ + Num(1) ELSE @]

\* One firing of an installed interval callback.
Tick ==
  /\ phase = "mounted"
  /\ intervals > 0
  /\ tickUpdater.completedSessions <= Num(MaxSessions)
  /\ Render(stored, tickUpdater, isRunning, FALSE, FALSE)
  /\ obs' = IF obs.on /\ obs.n * Scale
                          < (focusMinutes + breakMinutes) * SecondsPerMinute
            THEN [obs EXCEPT !.n = @ + 1,
                             !.flips = @ + (IF tickUpdater.mode # mode THEN 1 ELSE 0)]
            ELSE ObsOff

\* Mutant of handleToggleMode: the mode is switched without stopping the timer.
handleToggleModeKeepsRunning(nextMode) ==
  /\ phase = "mounted"
  /\ Render(stored,
            [Cur EXCEPT !.mode = nextMode,
                        !.secondsLeft = (IF nextMode = "focus" THEN focusMinutes
                                         ELSE breakMinutes) * SecondsPerMinute],
            isRunning, FALSE, FALSE)
  /\ obs' = ObsOff

\* handleToggleMode (lines 330-334)
handleToggleMode(nextMode) ==
  /\ phase = "mounted"
  /\ Render(stored,
            [Cur EXCEPT !.mode = nextMode,
                        !.secondsLeft = (IF nextMode = "focus" THEN focusMinutes
                                         ELSE breakMinutes) * SecondsPerMinute],
            FALSE, FALSE, FALSE)
  /\ obs' = ObsOff

\* handleResetTimer (lines 336-340)
handleResetTimer ==
  /\ phase = "mounted"
  /\ Render(stored,
            [Cur EXCEPT !.mode = "focus",
                        !.secondsLeft = focusMinutes * SecondsPerMinute],
            FALSE, FALSE, FALSE)
  /\ obs' = ObsOff

\* handlePreset (lines 322-328)
handlePreset(focus, rest) ==
  /\ phase = "mounted"
  /\ Render(stored,
            [Cur EXCEPT !.focusMinutes = focus,
                        !.breakMinutes = rest,
                        !.mode = "focus",
                        !.secondsLeft = focus * SecondsPerMinute],
            FALSE, FALSE, FALSE)
  /\ obs' = ObsOff

\* `Number(event.target.value) || fallback`: NaN and 0 are falsy.
OrElse(v, fallback) ==
  IF v.t = "number" /\ v.n # 0 THEN v.n ELSE fallback

\* Mutant of setFocusDuration: the countdown is reset whenever the mode is
\* Focus, running or not.
setFocusDurationAlwaysResets(v) ==
  /\ phase = "mounted"
  /\ LET nextFocus == Min2(Max2(OrElse(v, Num(MinFocus)), Num(MinFocus)), Num(MaxFocus))
     IN Render(stored,
               [Cur EXCEPT !.focusMinutes = nextFocus,
                           !.secondsLeft = IF mode = "focus"
                                           THEN nextFocus * SecondsPerMinute ELSE @],
               isRunning, FALSE, FALSE)
  /\ obs' = ObsOff

\* The focus input's onChange (lines 431-443)
setFocusDuration(v) ==
  /\ phase = "mounted"
  /\ LET nextFocus == Min2(Max2(OrElse(v, Num(MinFocus)), Num(MinFocus)), Num(MaxFocus))
     IN Render(stored,
               [Cur EXCEPT !.focusMinutes = nextFocus,
                           !.secondsLeft = IF ~isRunning /\ mode = "focus"
                                           THEN nextFocus * SecondsPerMinute ELSE @],
               isRunning, FALSE, FALSE)
  /\ obs' = ObsOff

\* The break input's onChange (lines 454-466)
setBreakDuration(v) ==
  /\ phase = "mounted"
  /\ LET nextBreak == Min2(Max2(OrElse(v, Num(MinBreak)), Num(MinBreak)), Num(MaxBreak))
     IN Render(stored,
               [Cur EXCEPT !.breakMinutes = nextBreak,
                           !.secondsLeft = IF ~isRunning /\ mode = "break"
                                           THEN nextBreak * SecondsPerMinute ELSE @],
               isRunning, FALSE, FALSE)
  /\ obs' = ObsOff

\* handleResetAllData (lines 373-385): removeItem, then every cell to its
\* default; setTasks([]) is a new array, so the persistence effect runs.
handleResetAllData ==
  /\ phase = "mounted"
  /\ Render(Absent, defaults, FALSE, TRUE, FALSE)
  /\ obs' = ObsOff

\* An ambient chip's onClick (line 524)
setAmbientProfile(p, suspended) ==
  /\ phase = "mounted"
  /\ Render(stored, [Cur EXCEPT !.ambient = p], isRunning, FALSE, suspended)
  /\ obs' = ObsOff

\* The volume slider's onChange (line 538)
setVolumePercent(v, suspended) ==
  /\ phase = "mounted"
  /\ Render(stored, [Cur EXCEPT !.volume = v], isRunning, FALSE, suspended)
  /\ obs' = ObsOff

\* React unmounts App: the interval effect's cleanup, the ambient effect's
\* cleanup and the unmount cleanup run.
Shutdown ==
  /\ phase = "mounted"
  /\ phase' = "unmounted"
  /\ intervals' = intervals - (IF isRunning THEN 1 ELSE 0)
  /\ audio' = unmountCleanup(audio, ambient)
  /\ obs' = ObsOff
  /\ UNCHANGED << stored, rawState, focusMinutes, breakMinutes, mode, secondsLeft,
                  isRunning, completedSessions, tasks, ambient, volume, modeRef,
                  focusRef, breakRef, rejected, storeFull >>

\* The promise of the oldest pending ctx.resume() resolves: that startAmbient
\* call continues from line 159 with the ambient and volume it captured.
\* Nothing cancels it: not a later profile change, not the unmount.
ResumeDone ==
  /\ audio.pending # << >>
  /\ LET h == Head(audio.pending)
         a0 == [audio EXCEPT !.pending = Tail(@),
                             !.state = IF @ = "suspended" THEN "running" ELSE @]
     IN audio' = BuildGraph(a0, h.ambient, h.volume)
  /\ Bounded(audio')
  /\ UNCHANGED << phase, stored, rawState, focusMinutes, breakMinutes, mode,
                  secondsLeft, isRunning, completedSessions, tasks, ambient, volume,
                  modeRef, focusRef, breakRef, intervals, rejected, obs, storeFull >>

\* The key-value store stops taking writes while App is mounted (its quota is
\* used up, storage is switched off): from now on setItem throws.
StoreFills ==
  /\ phase = "mounted"
  /\ ~storeFull
  /\ storeFull' = TRUE
  /\ UNCHANGED << phase, stored, rawState, focusMinutes, breakMinutes, mode,
                  secondsLeft, isRunning, completedSessions, tasks, ambient, volume,
                  modeRef, focusRef, breakRef, intervals, audio, rejected, obs >>

\* Mutant of ResumeFail: the rejection is caught inside startAmbient and the
\* call goes on to build the graph.
ResumeFailContinues ==
  /\ audio.pending # << >>
  /\ audio.state # "running"
  /\ LET h == Head(audio.pending)
     IN audio' = BuildGraph([audio EXCEPT !.pending = Tail(@)], h.ambient, h.volume)
  /\ Bounded(audio')
  /\ UNCHANGED << phase, stored, rawState, focusMinutes, breakMinutes, mode,
                  secondsLeft, isRunning, completedSessions, tasks, ambient, volume,
                  modeRef, focusRef, breakRef, intervals, rejected, obs, storeFull >>

\* The promise of the oldest pending ctx.resume() rejects: that startAmbient
\* call ends there (an unhandled rejection; the effect did not await it).
ResumeFail ==
  /\ audio.pending # << >>
  /\ audio.state # "running"
  /\ audio' = [audio EXCEPT !.pending = Tail(@)]
  /\ UNCHANGED << phase, stored, rawState, focusMinutes, breakMinutes, mode,
                  secondsLeft, isRunning, completedSessions, tasks, ambient, volume,
                  modeRef, focusRef, breakRef, intervals, rejected, obs, storeFull >>

\* The snapshot the first page of a reload run starts from: a 1-minute Break
\* about to begin before a 5-minute Focus, the session count at the bound of
\* the model so that the run ends with that Focus countdown.
ReloadStored ==
  { Serialize([defaults EXCEPT !.focusMinutes = Num(MinFocus),
                               !.breakMinutes = Num(MinBreak),
                               !.mode = "break",
                               !.secondsLeft = Num(MinBreak) * SecondsPerMinute,
                               !.completedSessions = Num(MaxSessions)]) }

\* The driver reloads the page that was loaded from ReloadStored: every cell,
\* ref, interval and audio object of the page is gone, localStorage stays,
\* and App is about to be mounted again.
Reload ==
  /\ phase = "mounted"
  /\ rawState \in ReloadStored
  /\ phase' = "boot"
  /\ rawState' = Absent
  /\ focusMinutes' = defaults.focusMinutes
  /\ breakMinutes' = defaults.breakMinutes
  /\ mode' = defaults.mode
  /\ secondsLeft' = defaults.secondsLeft
  /\ completedSessions' = defaults.completedSessions
  /\ tasks' = defaults.tasks
  /\ ambient' = defaults.ambient
  /\ volume' = defaults.volume
  /\ isRunning' = FALSE
  /\ modeRef' = defaults.mode
  /\ focusRef' = defaults.focusMinutes
  /\ breakRef' = defaults.breakMinutes
  /\ intervals' = 0
  /\ audio' = NoAudio
  /\ rejected' = FALSE
  /\ obs' = ObsOff
  /\ UNCHANGED << stored, storeFull >>

\* ------------------------------------------------------------------ inputs
\* What the driver types into the duration inputs, as Number(value) gives it.
DurationInputs == { JNaN, JNum(Num(6)) }
VolumeInputs == { Num(0), Num(DefaultVolume), Num(MaxVolume) }
Modes == {"focus", "break"}
\* The preset buttons the driver clicks (indexes of PRESETS).
PresetIndexes == {1}

Task1 == [id |-> "1-1", title |-> "write", done |-> FALSE]
Task2 == [id |-> "2-2", title |-> "read", done |-> TRUE]

\* Snapshots within the ranges of the persisted schema.
ValidStates ==
  { s \in [ focusMinutes : {Num(MinFocus), Num(DefaultFocus), Num(MaxFocus)},
            breakMinutes : {Num(MinBreak), Num(MaxBreak)},
            mode : Modes,
            secondsLeft : {0, Num(1), Num(MinBreak) * SecondsPerMinute,
                           Num(MinFocus) * SecondsPerMinute,
                           Num(MaxBreak) * SecondsPerMinute,
                           Num(MaxFocus) * SecondsPerMinute},
            completedSessions : {0, Num(1), Num(SessionCap), Num(SessionCap + 1)},
            tasks : {<< >>, <<Task1, Task2>>},
            ambient : AmbientValues,
            volume : {0, Num(DefaultVolume), Num(MaxVolume)} ] :
      s.secondsLeft <= (IF s.mode = "focus" THEN s.focusMinutes ELSE s.breakMinutes)
                         * SecondsPerMinute }

\* Stored objects with missing, wrongly typed, non-integer and out-of-range
\* fields.
RawTasks ==
  JArr(<< TaskJson(Task1),
          JNull,
          JObj([title |-> JStr("no id")]),
          JObj([id |-> JStr("3-3"), title |-> JStr("walk"), done |-> JNum(Num(1))]),
          JObj([id |-> JNum(Num(4)), title |-> JStr("bad id"), done |-> JBool(TRUE)]) >>)

RawObjects ==
  [ focusMinutes : {JUndef, JNum(Num(50)), JNum(Num(25) + 1), JNum(Num(500))},
    breakMinutes : {JStr("5"), JNum(0), JNum(Num(10))},
    mode : {JUndef, JStr("break"), JStr("Break")},
    secondsLeft : {JUndef, JNum(0 - Num(5)), JNum(Num(10) + 1), JNum(Num(99999))},
    completedSessions : {JUndef, JNum(0 - Num(1)), JNum(Num(7))},
    tasks : {JStr("none"), RawTasks},
    ambient : {JUndef, JStr("disco"), JStr("rain")},
    volume : {JUndef, JNum(Num(150)), JNum(Num(33) + 1)} ]

LoadStored ==
  {Absent, EmptyText, Garbage, Text(JNull), Text(JNum(Num(5))), Text(JStr("x")),
   Text(JArr(<< >>))}
    \cup { Text(JObj(f)) : f \in RawObjects }
    \cup { Serialize(s) : s \in ValidStates }

TimerStored ==
  { Serialize([defaults EXCEPT !.mode = "break", !.secondsLeft = 0]) }

AudioStored ==
  { Absent, Serialize([defaults EXCEPT !.ambient = "rain"]) }

\* ---------------------------------------------------------- specifications
\* Before React mounts App only localStorage exists; the cells hold
\* placeholders until Mount.
Boot(values) ==
  /\ phase = "boot"
  /\ stored \in values
  /\ rawState = Absent
  /\ focusMinutes = defaults.focusMinutes
  /\ breakMinutes = defaults.breakMinutes
  /\ mode = defaults.mode
  /\ secondsLeft = defaults.secondsLeft
  /\ completedSessions = defaults.completedSessions
  /\ tasks = defaults.tasks
  /\ ambient = defaults.ambient
  /\ volume = defaults.volume
  /\ isRunning = FALSE
  /\ modeRef = defaults.mode
  /\ focusRef = defaults.focusMinutes
  /\ breakRef = defaults.breakMinutes
  /\ intervals = 0
  /\ audio = NoAudio
  /\ rejected = FALSE
  /\ storeFull = FALSE
  /\ obs = ObsOff

MountStep == \E suspended \in BOOLEAN : Mount(suspended)
SetModeStep == \E m \in Modes : handleToggleMode(m)
PresetStep == \E i \in PresetIndexes : handlePreset(PRESETS[i].focus, PRESETS[i].rest)
SetFocusStep == \E v \in DurationInputs : setFocusDuration(v)
SetBreakStep == \E v \in DurationInputs : setBreakDuration(v)
SetAmbientStep ==
  \E p \in AmbientValues, suspended \in BOOLEAN : setAmbientProfile(p, suspended)
SetVolumeStep ==
  \E v \in VolumeInputs, suspended \in BOOLEAN : setVolumePercent(v, suspended)

\* The whole program.
Init == Boot(TimerStored \cup AudioStored)
Next ==
  \/ MountStep \/ Start \/ Pause \/ Tick \/ SetModeStep \/ handleResetTimer
  \/ PresetStep \/ SetFocusStep \/ SetBreakStep \/ handleResetAllData
  \/ SetAmbientStep \/ SetVolumeStep \/ Shutdown \/ ResumeDone \/ ResumeFail
  \/ StoreFills
Spec == Init /\ [][Next]_vars

\* Loading: every stored value, mounted once.
LoadInit == Boot(LoadStored)
LoadNext == MountStep
LoadSpec == LoadInit /\ [][LoadNext]_vars

\* The timer: the session commands and ticks, the ambient cells left alone.
TimerInit == Boot(TimerStored)
TimerNext ==
  \/ MountStep \/ Start \/ Pause \/ Tick \/ SetModeStep \/ handleResetTimer
  \/ PresetStep \/ SetFocusStep \/ SetBreakStep \/ handleResetAllData
TimerSpec == TimerInit /\ [][TimerNext]_vars

\* The synthesizer: the ambient commands, shutdown and resume completions,
\* the timer idle.
AudioInit == Boot(AudioStored)
AudioNext ==
  \/ MountStep \/ SetAmbientStep \/ SetVolumeStep \/ handleResetAllData \/ Shutdown
  \/ ResumeDone \/ ResumeFail
AudioSpec == AudioInit /\ [][AudioNext]_vars

\* The synthesizer beside a timer that is started and paused.
AmbientTimerInit == Boot(AudioStored)
AmbientTimerNext == AudioNext \/ Start \/ Pause
AmbientTimerSpec == AmbientTimerInit /\ [][AmbientTimerNext]_vars

\* The timer left to itself: the mode is chosen while idle, the timer is
\* started, and from then on only the interval fires, which the browser's
\* timer does again and again while the interval is installed.
IdleSetModeStep == ~isRunning /\ SetModeStep
LiveInit == Boot(TimerStored)
LiveNext == MountStep \/ Start \/ Tick \/ IdleSetModeStep
LiveSpec == LiveInit /\ [][LiveNext]_vars /\ WF_vars(Tick)

\* A page that runs the timer and is reloaded at any moment.
ReloadInit == Boot(ReloadStored)
ReloadNext == MountStep \/ Start \/ Tick \/ Reload
ReloadSpec == ReloadInit /\ [][ReloadNext]_vars

\* The store failing under the timer: the session commands with the
\* durations as loaded, and the store filling up at any moment.
StorageInit == Boot({Absent} \cup TimerStored)
StorageNext ==
  \/ MountStep \/ Start \/ Pause \/ Tick \/ SetModeStep \/ handleResetTimer
  \/ handleResetAllData \/ StoreFills
StorageSpec == StorageInit /\ [][StorageNext]_vars

\* ------------------------------------------------------------------ claims
Mounted == phase # "boot"

\* C1: in every state after mounting, 0 <= secondsLeft <= durationSeconds(mode),
\* also after the active mode's duration is changed while Running.
C1_SecondsWithinDuration ==
  Mounted => (0 <= secondsLeft /\ secondsLeft <= cycleDuration)

\* A tick that expires a Focus countdown.
FocusExpiry == Tick /\ mode = "focus" /\ ~(secondsLeft > Num(1))

\* C2: completedSessions grows by exactly 1 on a tick that expires a Focus
\* countdown (which moves to Break), and is unchanged by every other tick, by
\* start, pause, setMode, reset, applyPreset and the two duration setters.
C2_SessionsCountFocusExpiry ==
  [][ /\ FocusExpiry =>
           (completedSessions' = completedSessions + Num(1) /\ mode' = "break")
      /\ ( \/ (Tick /\ ~FocusExpiry)
           \/ Start \/ Pause \/ SetModeStep \/ handleResetTimer \/ PresetStep
           \/ SetFocusStep \/ SetBreakStep )
           => completedSessions' = completedSessions ]_vars

\* A Focus countdown has expired by a tick and a later Break one too, the
\* count having moved once.
C2_Witness ==
  /\ obs.on
  /\ obs.flips = 2
  /\ mode = "focus"
  /\ completedSessions = obs.cs0 + Num(1)

\* C3: from a start at the full Focus duration, with ticks only: after
\* durationSeconds(Focus) ticks the mode is Break at the full Break duration,
\* the count is one higher and the mode has changed once; after
\* durationSeconds(Focus) + durationSeconds(Break) ticks the mode is Focus and
\* the count is still one higher.  With 25/5, 1500 ticks give Break at 300.
C3_FullCycle ==
  obs.on =>
    /\ (obs.n * Scale = focusMinutes * SecondsPerMinute) =>
          /\ mode = "break"
          /\ secondsLeft = breakMinutes * SecondsPerMinute
          /\ completedSessions = obs.cs0 + Num(1)
          /\ obs.flips = 1
    /\ (obs.n * Scale = (focusMinutes + breakMinutes) * SecondsPerMinute) =>
          /\ mode = "focus"
          /\ completedSessions = obs.cs0 + Num(1)
    /\ (obs.n = 1500 /\ focusMinutes = Num(25) /\ breakMinutes = Num(5)) =>
          /\ mode = "break"
          /\ secondsLeft = Num(300)
          /\ completedSessions = obs.cs0 + Num(1)

\* 1800 ticks of the default 25/5 cycle have been counted.
C3_Witness ==
  /\ obs.on
  /\ obs.n = 1800
  /\ focusMinutes = Num(25)
  /\ breakMinutes = Num(5)
  /\ mode = "focus"
  /\ isRunning

\* C4: at most one audio graph is connected to the output in every state,
\* whatever the interleaving of profile and volume changes, full wipe,
\* shutdown and resume completions: a graph is built only after the previous
\* one was stopped and disconnected.
C4_AtMostOneGraph == Cardinality(audio.connected) <= 1

\* A second or later graph is connected alone after a pending resume
\* completed, the previous graph gone.
C4_Witness ==
  /\ phase = "mounted"
  /\ audio.built >= 2
  /\ \E g \in audio.connected : g.id = audio.built /\ audio.connected = {g}
  /\ audio.state = "running"
  /\ audio.pending = << >>

\* C5: with the profile Off no graph is connected, also when a resume started
\* by an earlier activation completes later; and a connected graph has the
\* filter chain of the current profile.
C5_OffIsSilent ==
  phase = "mounted" =>
    /\ (ambient = "off" => audio.connected = {})
    /\ \A g \in audio.connected : g.chain = Chain(ambient)

\* The source and filter nodes of the connected graphs.
Nodes(a) == { [id |-> g.id, chain |-> g.chain] : g \in a.connected }

\* C7: a volume change with a graph active, its write accepted, leaves the
\* same source and filter nodes connected and changes only the gain.
C7_VolumeKeepsGraph ==
  [][ (SetVolumeStep /\ audio.connected # {} /\ phase' = "mounted")
        => (Nodes(audio') = Nodes(audio) /\ audio'.built = audio.built) ]_vars

\* ---- loading
\* C6: whatever parses, the loaded state has an integer focusMinutes in
\* [5,120], breakMinutes in [1,45], volume in [0,100], completedSessions >= 0,
\* secondsLeft in [0, 60 * duration of the loaded mode], a mode and an ambient
\* of the schema.
C6_LoadedWithinSchema ==
  Mounted =>
    /\ IsInteger(focusMinutes) /\ Num(MinFocus) <= focusMinutes
    /\ focusMinutes <= Num(MaxFocus)
    /\ IsInteger(breakMinutes) /\ Num(MinBreak) <= breakMinutes
    /\ breakMinutes <= Num(MaxBreak)
    /\ IsInteger(volume) /\ 0 <= volume /\ volume <= Num(MaxVolume)
    /\ IsInteger(completedSessions) /\ 0 <= completedSessions
    /\ mode \in Modes
    /\ ambient \in AmbientValues
    /\ IsInteger(secondsLeft) /\ 0 <= secondsLeft /\ secondsLeft <= cycleDuration

SnapshotKeys ==
  {"focusMinutes", "breakMinutes", "mode", "secondsLeft", "completedSessions",
   "tasks", "ambient", "volume"}

\* The stored text is a JSON object with the schema's keys and types.
WellTyped(raw) ==
  /\ raw.t = "text"
  /\ raw.j.t = "object"
  /\ DOMAIN raw.j.f = SnapshotKeys
  /\ \A k \in {"focusMinutes", "breakMinutes", "secondsLeft", "completedSessions",
               "volume"} : raw.j.f[k].t = "number"
  /\ raw.j.f["mode"].t = "string"
  /\ raw.j.f["ambient"].t = "string"
  /\ raw.j.f["tasks"].t = "array"
  /\ \A i \in 1..Len(raw.j.f["tasks"].a) :
        LET task == raw.j.f["tasks"].a[i]
        IN /\ task.t = "object"
           /\ DOMAIN task.f = {"id", "title", "done"}
           /\ task.f["id"].t = "string"
           /\ task.f["title"].t = "string"
           /\ task.f["done"].t = "boolean"

\* The snapshot a well-typed text spells, read without any validation.
Plain(raw) ==
  LET f == raw.j.f
  IN [ focusMinutes |-> f["focusMinutes"].n,
       breakMinutes |-> f["breakMinutes"].n,
       mode |-> f["mode"].s,
       secondsLeft |-> f["secondsLeft"].n,
       completedSessions |-> f["completedSessions"].n,
       tasks |-> [ i \in 1..Len(f["tasks"].a) |->
                     [ id |-> f["tasks"].a[i].f["id"].s,
                       title |-> f["tasks"].a[i].f["title"].s,
                       done |-> f["tasks"].a[i].f["done"].b ] ],
       ambient |-> f["ambient"].s,
       volume |-> f["volume"].n ]

\* The ranges of the persisted schema.
Valid(s) ==
  /\ IsInteger(s.focusMinutes) /\ Num(MinFocus) <= s.focusMinutes
  /\ s.focusMinutes <= Num(MaxFocus)
  /\ IsInteger(s.breakMinutes) /\ Num(MinBreak) <= s.breakMinutes
  /\ s.breakMinutes <= Num(MaxBreak)
  /\ s.mode \in Modes
  /\ IsInteger(s.secondsLeft) /\ 0 <= s.secondsLeft
  /\ s.secondsLeft <= (IF s.mode = "focus" THEN s.focusMinutes ELSE s.breakMinutes)
                        * SecondsPerMinute
  /\ IsInteger(s.completedSessions) /\ 0 <= s.completedSessions
  /\ s.ambient \in AmbientValues
  /\ IsInteger(s.volume) /\ 0 <= s.volume /\ s.volume <= Num(MaxVolume)

Conforms(raw) == WellTyped(raw) /\ Valid(Plain(raw))

\* C8 as claimed: loading the saved text of any valid state gives that state
\* back, field for field, for any completedSessions >= 0.
C8_RoundTrip ==
  (Mounted /\ Conforms(rawState)) => Cur = Plain(rawState)

\* C8 as amended: the round trip holds for the valid states whose
\* completedSessions is at most 100000, the cap applied at load.
C8_RoundTripUpToCap ==
  (Mounted /\ Conforms(rawState)
     /\ Plain(rawState).completedSessions <= Num(SessionCap))
    => Cur = Plain(rawState)

\* A Break-mode state with tasks, a running profile and the count at the cap
\* has been loaded back unchanged.
C8_Witness ==
  /\ Mounted
  /\ Conforms(rawState)
  /\ Cur = Plain(rawState)
  /\ completedSessions = Num(SessionCap)
  /\ mode = "break"
  /\ secondsLeft = Num(MaxBreak) * SecondsPerMinute
  /\ focusMinutes = Num(MinFocus)
  /\ tasks = <<Task1, Task2>>
  /\ ambient = "forest"

\* C9 as claimed: an absent, unparsable or schema-violating stored value loads
\* as exactly the defaults.
C9_ViolationGivesDefaults ==
  (Mounted /\ ~Conforms(rawState)) => Cur = defaults

\* How a numeric field loads: the fallback for a non-number, the nearest
\* bound for a number out of range, itself otherwise.
FieldLoaded(v, lo, hi, fallback, got) ==
  IF v.t # "number" THEN got = fallback
  ELSE IF v.n < lo THEN got = lo
  ELSE IF v.n > hi THEN got = hi
  ELSE got = v.n

\* C9 as amended: load always yields a state; an absent, empty, unparsable or
\* non-object value gives the defaults; in a stored object each field is
\* validated on its own: a missing or wrongly typed field takes its default
\* (secondsLeft: the full duration of the loaded mode), a number out of range
\* its nearest bound, any other value is kept; an unknown ambient loads as off.
C9_FieldwiseDefaults ==
  Mounted =>
    IF rawState.t # "text" \/ rawState.j.t # "object" THEN Cur = defaults
    ELSE LET j == rawState.j
         IN /\ FieldLoaded(Prop(j, "focusMinutes"), Num(MinFocus), Num(MaxFocus),
                           Num(DefaultFocus), focusMinutes)
            /\ FieldLoaded(Prop(j, "breakMinutes"), Num(MinBreak), Num(MaxBreak),
                           Num(DefaultBreak), breakMinutes)
            /\ mode = (IF Prop(j, "mode") = JStr("break") THEN "break" ELSE "focus")
            /\ FieldLoaded(Prop(j, "secondsLeft"), 0, cycleDuration, cycleDuration,
                           secondsLeft)
            /\ FieldLoaded(Prop(j, "completedSessions"), 0, Num(SessionCap), 0,
                           completedSessions)
            /\ FieldLoaded(Prop(j, "volume"), 0, Num(MaxVolume), Num(DefaultVolume),
                           volume)
            /\ (Prop(j, "tasks").t # "array" => tasks = << >>)
            /\ ambient = (IF Prop(j, "ambient") \in { JStr(p) : p \in AmbientValues }
                          THEN Prop(j, "ambient").s ELSE "off")

\* An object with an unknown ambient and a focusMinutes above the range has
\* been loaded: ambient off, focusMinutes at the bound, not the default.
C9_Witness ==
  /\ Mounted
  /\ rawState.t = "text"
  /\ rawState.j.t = "object"
  /\ Prop(rawState.j, "ambient") = JStr("disco")
  /\ Prop(rawState.j, "focusMinutes") = JNum(Num(500))
  /\ ambient = "off"
  /\ focusMinutes = Num(MaxFocus)

\* ---- the store rejecting writes
\* C10: a rejected write is swallowed: no error leaves the effect, App stays
\* mounted with the state the command produced, and a running engine keeps
\* its tick callback.
C10_WriteFailureSwallowed ==
  storeFull =>
    /\ ~rejected
    /\ phase # "unmounted"
    /\ (phase = "mounted" /\ isRunning) => intervals > 0

\* ---- manual overrides
\* C11: from any state, setMode(m) gives mode m, reset gives Focus, a preset
\* (f, b) gives Focus with the durations f and b; each leaves the engine idle
\* at the full duration of the resulting mode.
C11_OverridesGoIdleAtFull ==
  [][ /\ \A m \in Modes :
           handleToggleMode(m) =>
             /\ mode' = m
             /\ ~isRunning'
             /\ secondsLeft' = (IF m = "focus" THEN focusMinutes ELSE breakMinutes)
                                 * SecondsPerMinute
             /\ focusMinutes' = focusMinutes /\ breakMinutes' = breakMinutes
      /\ handleResetTimer =>
             /\ mode' = "focus"
             /\ ~isRunning'
             /\ secondsLeft' = focusMinutes * SecondsPerMinute
             /\ focusMinutes' = focusMinutes /\ breakMinutes' = breakMinutes
      /\ \A i \in PresetIndexes :
           handlePreset(PRESETS[i].focus, PRESETS[i].rest) =>
             /\ focusMinutes' = PRESETS[i].focus
             /\ breakMinutes' = PRESETS[i].rest
             /\ mode' = "focus"
             /\ ~isRunning'
             /\ secondsLeft' = PRESETS[i].focus * SecondsPerMinute ]_vars

\* The engine is idle in Break at the full Break duration with a session
\* already counted: an override was taken after running.
C11_Witness ==
  /\ phase = "mounted"
  /\ mode = "break"
  /\ ~isRunning
  /\ intervals = 0
  /\ secondsLeft = breakMinutes * SecondsPerMinute
  /\ breakMinutes = Num(6)
  /\ completedSessions = Num(1)

\* ---- the duration inputs
\* What the driver may type, out of range, fractional and empty included.
WideDurationInputs ==
  { JNaN, JNum(0), JNum(0 - Num(3)), JNum(Num(2)), JNum(Num(6)), JNum(Num(7) + 1),
    JNum(Num(45)), JNum(Num(120)), JNum(Num(200)) }
SetFocusWideStep == \E v \in WideDurationInputs : setFocusDuration(v)
SetBreakWideStep == \E v \in WideDurationInputs : setBreakDuration(v)

\* The duration inputs under every kind of input, the timer not ticking.
DurationInit == Boot({Absent} \cup TimerStored)
DurationNext ==
  \/ MountStep \/ Start \/ Pause \/ SetModeStep \/ SetFocusWideStep \/ SetBreakWideStep
DurationSpec == DurationInit /\ [][DurationNext]_vars

\* x clamped into [lo, hi]; an input that is no number counts as lo.
ClampedInto(v, lo, hi) ==
  IF v.t # "number" THEN lo
  ELSE IF v.n < lo THEN lo
  ELSE IF v.n > hi THEN hi
  ELSE v.n

\* C12: setFocusDuration(x) / setBreakDuration(x) store x clamped into [5,120]
\* / [1,45]; secondsLeft becomes the new duration * 60 exactly when the engine
\* is idle in the edited mode and is unchanged otherwise; mode, running,
\* completedSessions and the other duration never change.
C12_DurationSetters ==
  [][ \A v \in WideDurationInputs :
        /\ setFocusDuration(v) =>
             /\ focusMinutes' = ClampedInto(v, Num(MinFocus), Num(MaxFocus))
             /\ secondsLeft' = (IF ~isRunning /\ mode = "focus"
                                THEN focusMinutes' * SecondsPerMinute ELSE secondsLeft)
             /\ UNCHANGED << mode, isRunning, completedSessions, breakMinutes >>
        /\ setBreakDuration(v) =>
             /\ breakMinutes' = ClampedInto(v, Num(MinBreak), Num(MaxBreak))
             /\ secondsLeft' = (IF ~isRunning /\ mode = "break"
                                THEN breakMinutes' * SecondsPerMinute ELSE secondsLeft)
             /\ UNCHANGED << mode, isRunning, completedSessions, focusMinutes >> ]_vars

\* Running in Focus with focusMinutes clamped down to 120 and the countdown
\* still at the 25-minute value it had when the timer was started.
C12_Witness ==
  /\ phase = "mounted"
  /\ isRunning
  /\ mode = "focus"
  /\ focusMinutes = Num(MaxFocus)
  /\ breakMinutes = Num(MaxBreak)
  /\ secondsLeft = Num(DefaultFocus) * SecondsPerMinute

C14_SameProfileKeepsGraph ==
  [][ /\ (\E b \in BOOLEAN : setAmbientProfile(ambient, b)) => audio' = audio
      /\ (\E b \in BOOLEAN : setVolumePercent(volume, b)) => audio' = audio ]_vars

\* A rain graph is connected at the current volume and the driver can select
\* rain again.
C14_Witness ==
  /\ phase = "mounted"
  /\ ambient = "rain"
  /\ volume = Num(MaxVolume)
  /\ \E g \in audio.connected : g.profile = "rain"
  /\ Cardinality(audio.connected) = 1
  /\ audio.pending = << >>
  /\ ENABLED setAmbientProfile(ambient, FALSE)

\* ---- shutdown
\* C15: in every state after shutdown no graph is connected, no source is
\* held and the audio device is released, also when a resume of the device
\* was still pending at shutdown.
C15_NothingAfterShutdown ==
  phase = "unmounted" =>
    /\ audio.connected = {}
    /\ audio.source = 0
    /\ audio.ctx = "null"

\* ---- the device refusing to resume
\* C16: when the resume of the audio device fails while a profile other than
\* Off is being activated in the mounted application, no graph is connected
\* afterwards, the application stays mounted with no error recorded, and the
\* session state, the running flag and the tick callback are as before.
C16_ResumeFailureIsSilent ==
  [][ (ResumeFail /\ phase = "mounted") =>
        /\ audio'.connected = {}
        /\ audio'.source = 0
        /\ phase' = "mounted"
        /\ ~rejected'
        /\ UNCHANGED << focusMinutes, breakMinutes, mode, secondsLeft, isRunning,
                        completedSessions, tasks, intervals, stored >> ]_vars

\* The timer runs, a profile is selected, the device is still suspended and
\* no resume is pending any more: the resume has failed.
C16_Witness ==
  /\ phase = "mounted"
  /\ ambient = "forest"
  /\ audio.ctx = "ctx"
  /\ audio.state = "suspended"
  /\ audio.pending = << >>
  /\ audio.connected = {}
  /\ isRunning
  /\ intervals = 1

C18_OneCallbackIffRunning ==
  /\ phase = "mounted" => intervals = (IF isRunning THEN 1 ELSE 0)
  /\ (ENABLED Tick) => (isRunning /\ intervals = 1)

\* The timer was started, counted a session, was stopped by reset, and was
\* started again: one callback is installed.
C18_Witness ==
  /\ phase = "mounted"
  /\ isRunning
  /\ intervals = 1
  /\ completedSessions = Num(1)
  /\ mode = "focus"
  /\ secondsLeft = focusMinutes * SecondsPerMinute - Num(1)

\* ---- the unattended cycle
\* C19: from any Running state, with the ticks firing and no other command,
\* running stays true, a Break countdown always gives way to Focus, and
\* every count of completed sessions below the bound of the model is followed
\* by the next one, reached on entering Break.
C19_CycleNeverHalts ==
  /\ [][isRunning => isRunning']_vars
  /\ (isRunning /\ mode = "break") ~> (isRunning /\ mode = "focus")
  /\ \A k \in 0..(MaxSessions - 1) :
       (isRunning /\ completedSessions = Num(k))
         ~> (isRunning /\ mode = "break" /\ completedSessions = Num(k + 1))

\* Running in the second Focus countdown: the mode has flipped twice and a
\* session has been counted without any command after start.
C19_Witness ==
  /\ phase = "mounted"
  /\ isRunning
  /\ mode = "focus"
  /\ completedSessions = Num(1)
  /\ secondsLeft = focusMinutes * SecondsPerMinute - Num(2)

\* ---- the running flag is not persisted
\* C20: every snapshot the application stores has exactly the eight fields of
\* the schema, none of them a running flag; and mounting from a stored
\* snapshot leaves the engine idle with no tick callback, in the stored mode
\* with the stored secondsLeft, whatever the engine was doing when the
\* snapshot was written.
C20_LoadsIdle ==
  [][ /\ stored'.t = "text" => DOMAIN stored'.j.f = SnapshotKeys
      /\ MountStep =>
           /\ ~isRunning'
           /\ intervals' = 0
           /\ Conforms(stored) =>
                /\ mode' = Plain(stored).mode
                /\ secondsLeft' = Plain(stored).secondsLeft ]_vars

\* The page was reloaded while the Focus countdown was running (only a tick
\* stores 100 seconds left) and has come up idle at that second.
C20_Witness ==
  /\ phase = "mounted"
  /\ Conforms(rawState)
  /\ rawState \notin ReloadStored
  /\ Plain(rawState).mode = "focus"
  /\ Plain(rawState).secondsLeft = Num(100)
  /\ ~isRunning
  /\ intervals = 0
  /\ mode = "focus"
  /\ secondsLeft = Num(100)
====
